---- MODULE Spec2Model ----
(***************************************************************************)
(* Quina results page (src/script.js): the fetch cycle fetchResults, the   *)
(* CSV extractor parseCSV / parseCSVLine, the merge step and the renderer  *)
(* displayResults.                                                         *)
(*                                                                         *)
(* A JavaScript string is a sequence of one-character strings, so that the *)
(* parsers work on characters as the code does.  A DrawRecord is           *)
(* [drawNumber, date, numbers].  A NaN is [nan |-> TRUE, val |-> 0].       *)
(*                                                                         *)
(* Specifications:                                                         *)
(*   Spec / FairSpec  the page: overlapping fetch cycles started by the    *)
(*                    initial load, clicks and timer ticks, over a small   *)
(*                    set of documents (FairSpec: every request settles);  *)
(*   CycleSpec        the initial load's cycle alone, over every local     *)
(*                    document and sheet text within the bounds;           *)
(*   CsvSpec          parseCSV applied to texts built line by line;        *)
(*   RenderSpec       displayResults applied to result collections.        *)
(***************************************************************************)
EXTENDS Integers, Sequences, FiniteSets, TLC

\* ------------------------------------------------------------------ bounds
\* Fetch cycles that may be started (the initial load included).
MaxCycles == 2
\* Draw numbers of the records the two sources hold: 1..MaxDraw.
MaxDraw == 2
\* Records in the local JSON document.
MaxLocalLen == 3
\* Data lines in the sheet's CSV export.
MaxSheetLines == 2
\* Lines of a CSV text handed to parseCSV in CsvSpec.
MaxLines == 3
\* Records of a collection handed to displayResults in RenderSpec.
MaxResults == 3
\* Draw numbers of those records: 1..MaxRenderDraw.
MaxRenderDraw == 3

VARIABLES
    \* --- one entry per fetch cycle (an activation of fetchResults)
    pc,               \* where the cycle is suspended, or how it ended
    localStep,        \* how the local step went: "pending", the fetch
                      \* "rejected" | "notOk" | "ok", then the body
                      \* "unparseable" | "noResults" | "results"
    localData,        \* localData, the parsed local document
    sheetResponse,    \* the sheet fetch: "pending" | "rejected" | "notOk" | "ok"
    warned,           \* the inner catch ran (console.warn was written)
    \* --- the page
    started,          \* cycles started so far
    refreshBtn,       \* [disabled, textContent]
    latestResultEl,   \* innerHTML of #latestResult
    previousResultsEl,\* innerHTML of #previousResults
    updateTimeEl,     \* the cycle whose completion time #updateTime shows
    \* --- history
    writer,           \* the cycle that last wrote each of the two areas
    lastCompleted,    \* the cycle that completed last (0: none yet)
    overlapped,       \* cycles that were in flight together with another
    lastMerge,        \* localData.results, sheetResults, allResults of the
                      \* last cycle that called displayResults
    \* --- CsvSpec and RenderSpec
    phase,            \* "page", or "build" | "called"
    arg,              \* the argument (csvText, or data.results)
    ret               \* what the call returned / left behind

vars == <<pc, localStep, localData, sheetResponse, warned, started,
          refreshBtn, latestResultEl, previousResultsEl, updateTimeEl,
          writer, lastCompleted, overlapped, lastMerge, phase, arg, ret>>

pageVars == <<pc, localStep, localData, sheetResponse, warned, started,
              refreshBtn, updateTimeEl, writer, lastCompleted, overlapped,
              lastMerge>>

\* ------------------------------------------------------- strings, numbers
DigitChars == <<"0", "1", "2", "3", "4", "5", "6", "7", "8", "9">>

IsDigit(ch) == \E i \in 1..10 : DigitChars[i] = ch

DigitVal(ch) == (CHOOSE i \in 1..10 : DigitChars[i] = ch) - 1

\* String.prototype.trim's white space (the characters the texts here use).
IsSpace(ch) == ch \in {" ", "\t", "\r"}

NaN == [nan |-> TRUE, val |-> 0]

Num(n) == [nan |-> FALSE, val |-> n]

RECURSIVE ToChars(_)
\* The decimal digits of a non-negative integer.
ToChars(n) ==
    IF n < 10 THEN <<DigitChars[n + 1]>>
    ELSE ToChars(n \div 10) \o <<DigitChars[(n % 10) + 1]>>

RECURSIVE TrimStart(_)
TrimStart(s) ==
    IF s # <<>> /\ IsSpace(Head(s)) THEN TrimStart(Tail(s)) ELSE s

RECURSIVE TrimEnd(_)
TrimEnd(s) ==
    IF s # <<>> /\ IsSpace(s[Len(s)]) THEN TrimEnd(SubSeq(s, 1, Len(s) - 1))
    ELSE s

\* String.prototype.trim
Trim(s) == TrimEnd(TrimStart(s))

RECURSIVE DigitsValue(_, _)
\* The value of the longest prefix of digits of s, continuing from acc.
DigitsValue(s, acc) ==
    IF s # <<>> /\ IsDigit(Head(s))
    THEN DigitsValue(Tail(s), 10 * acc + DigitVal(Head(s)))
    ELSE acc

\* parseInt(v, 10): leading white space is skipped, a sign is optional, the
\* longest run of digits is read and what follows it is ignored; NaN when no
\* digit is there.
parseInt(v) ==
    LET t == TrimStart(v)
        signed == t # <<>> /\ Head(t) \in {"+", "-"}
        body == IF signed THEN Tail(t) ELSE t
        magnitude == DigitsValue(body, 0)
    IN IF body = <<>> \/ ~IsDigit(Head(body)) THEN NaN
       ELSE IF signed /\ Head(t) = "-" THEN Num(0 - magnitude)
       ELSE Num(magnitude)

\* row[0].replace(/\D/g, '')
StripNonDigits(s) == SelectSeq(s, IsDigit)

\* String.prototype.split with a one-character separator: the pieces between
\* consecutive separators, the empty ones included.
Split(s, sep) ==
    LET at == {i \in 1..Len(s) : s[i] = sep}
        \* the position of the k-th separator; 0 and Len(s) + 1 are the ends
        pos(k) == IF k = 0 THEN 0
                  ELSE IF k > Cardinality(at) THEN Len(s) + 1
                  ELSE CHOOSE p \in at : Cardinality({q \in at : q < p}) = k - 1
    IN [k \in 1..(Cardinality(at) + 1) |-> SubSeq(s, pos(k - 1) + 1, pos(k) - 1)]

\* String.prototype.padStart(2, '0')
PadStart2(s) ==
    IF Len(s) >= 2 THEN s
    ELSE IF Len(s) = 1 THEN <<"0">> \o s
    ELSE <<"0", "0">>

RECURSIVE Join(_, _)
\* Array.prototype.join
Join(parts, sep) ==
    IF parts = <<>> THEN <<>>
    ELSE IF Len(parts) = 1 THEN parts[1]
    ELSE parts[1] \o <<sep>> \o Join(Tail(parts), sep)

\* ------------------------------------------------------------ parseCSVLine
RECURSIVE ParseLineFrom(_, _, _, _, _)
ParseLineFrom(line, i, values, current, inQuotes) ==
    IF i > Len(line) THEN Append(values, Trim(current))
    ELSE LET ch == line[i] IN
         IF ch = "\"" THEN ParseLineFrom(line, i + 1, values, current, ~inQuotes)
         ELSE IF ch = "," /\ ~inQuotes
         THEN ParseLineFrom(line, i + 1, Append(values, Trim(current)), <<>>, inQuotes)
         ELSE ParseLineFrom(line, i + 1, values, Append(current, ch), inQuotes)

parseCSVLine(line) == ParseLineFrom(line, 1, <<>>, <<>>, FALSE)

\* ---------------------------------------------------------------- parseCSV
Undefined == <<"u", "n", "d", "e", "f", "i", "n", "e", "d">>

\* Lines 78-82: dd/mm/yyyy to yyyy-mm-dd.  A missing third part is the
\* string "undefined" in the template literal.
IsoDate(dateStr) ==
    IF \E i \in 1..Len(dateStr) : dateStr[i] = "/"
    THEN LET parts == Split(dateStr, "/")
             d == parts[1]
             m == parts[2]
             y == IF Len(parts) >= 3 THEN parts[3] ELSE Undefined
         IN y \o <<"-">> \o PadStart2(m) \o <<"-">> \o PadStart2(d)
    ELSE dateStr

\* Line 70: a row with fewer fields than this is skipped.
MinFields == 7

\* Line 68: the index (0-based) of the first line that is read as data.
FirstDataIndex == 1

\* Line 74: row.slice(2, 7).map(parseInt).filter(not NaN)
RowNumbers(row) ==
    LET parsed == [k \in 1..5 |-> parseInt(row[k + 2])]
        kept == SelectSeq(parsed, LAMBDA p : ~p.nan)
    IN [k \in 1..Len(kept) |-> kept[k].val]

RECURSIVE ParseRowsFrom(_, _, _)
\* The loop of lines 68-90, from the 0-based index i.
ParseRowsFrom(lines, i, results) ==
    IF i >= Len(lines) THEN results
    ELSE LET row == parseCSVLine(lines[i + 1]) IN
         IF Len(row) < MinFields THEN ParseRowsFrom(lines, i + 1, results)
         ELSE LET drawNumber == parseInt(StripNonDigits(row[1]))
                  dateStr == Trim(row[2])
                  numbers == RowNumbers(row)
              IN IF ~drawNumber.nan /\ Len(numbers) = 5
                 THEN ParseRowsFrom(lines, i + 1,
                          Append(results, [drawNumber |-> drawNumber.val,
                                           date |-> IsoDate(dateStr),
                                           numbers |-> numbers]))
                 ELSE ParseRowsFrom(lines, i + 1, results)

\* parseCSV with the loop of line 68 starting at index 0.
parseCSVKeepsHeader(csvText) ==
    ParseRowsFrom(SelectSeq(Split(csvText, "\n"), LAMBDA l : l # <<>>), 0, <<>>)

\* Lines 63-92.
parseCSV(csvText) ==
    LET lines == SelectSeq(Split(csvText, "\n"), LAMBDA l : l # <<>>)
    IN ParseRowsFrom(lines, FirstDataIndex, <<>>)

\* ------------------------------------------------------------------- merge
\* Line 40: allResults.find(r => r.drawNumber == sr.drawNumber) found one.
\* Draw numbers are integers on both sides, where == is numeric equality.
Found(allResults, sr) ==
    \E i \in 1..Len(allResults) : allResults[i].drawNumber = sr.drawNumber

RECURSIVE MergeFrom(_, _, _)
\* Lines 39-43: sheetResults.forEach, from index i.
MergeFrom(allResults, sheetResults, i) ==
    IF i > Len(sheetResults) THEN allResults
    ELSE IF ~Found(allResults, sheetResults[i])
    THEN MergeFrom(Append(allResults, sheetResults[i]), sheetResults, i + 1)
    ELSE MergeFrom(allResults, sheetResults, i + 1)

\* The merge without the find of line 40: every sheet record is pushed.
MergeNoDedup(localResults, sheetResults) == localResults \o sheetResults

\* Lines 38-43.
Merge(localResults, sheetResults) == MergeFrom(localResults, sheetResults, 1)

\* ------------------------------------------------------------------ render
Desconhecida == <<"D", "e", "s", "c", "o", "n", "h", "e", "c", "i", "d", "a">>

\* Lines 184-197.  The locale's rendering of a date is kept as the pair of
\* the locale and the date string it renders; toLocaleDateString does not
\* throw on the strings parseCSV and the local document produce.
formatDate(dateStr) ==
    IF dateStr = <<>> THEN [text |-> Desconhecida]
    ELSE [locale |-> "pt-BR", of |-> dateStr]

\* Lines 146-164 / 167-181: the fields the markup shows.
CardOf(result) ==
    [drawNumber |-> result.drawNumber,
     date |-> formatDate(result.date),
     balls |-> result.numbers]

createLatestResultHTML(result) == [kind |-> "latestCard", card |-> CardOf(result)]

createPreviousResultHTML(result) == CardOf(result)

RECURSIVE InsertDesc(_, _)
\* r goes after every record that does not sort behind it.
InsertDesc(sorted, r) ==
    IF sorted = <<>> THEN <<r>>
    ELSE IF Head(sorted).drawNumber - r.drawNumber >= 0
    THEN <<Head(sorted)>> \o InsertDesc(Tail(sorted), r)
    ELSE <<r>> \o sorted

RECURSIVE SortDescFrom(_, _, _)
SortDescFrom(s, i, sorted) ==
    IF i > Len(s) THEN sorted
    ELSE SortDescFrom(s, i + 1, InsertDesc(sorted, s[i]))

\* Line 120: Array.prototype.sort with (a, b) => b.drawNumber - a.drawNumber;
\* the sort is stable.
SortDesc(s) == SortDescFrom(s, 1, <<>>)

NoResultsHTML == [kind |-> "noResults"]

ErrorHTML == [kind |-> "errorBlock"]

EmptyHTML == [kind |-> "empty"]

NoPreviousHTML == [kind |-> "noPrevious"]

InitialHTML == [kind |-> "initial"]

GridHTML(previousResults) ==
    [kind |-> "grid",
     cards |-> [k \in 1..Len(previousResults) |->
                   createPreviousResultHTML(previousResults[k])]]

\* displayResults without the sort of line 120.
DisplayUnsorted(results) ==
    IF Len(results) = 0
    THEN [latest |-> NoResultsHTML, previous |-> EmptyHTML, results |-> results]
    ELSE [latest |-> createLatestResultHTML(results[1]),
          previous |-> IF Len(results) > 1
                       THEN GridHTML(Tail(results))
                       ELSE NoPreviousHTML,
          results |-> results]

\* Lines 112-136: what the call writes, and the caller's array after it.
displayResults(results) ==
    IF Len(results) = 0
    THEN [latest |-> NoResultsHTML, previous |-> EmptyHTML, results |-> results]
    ELSE LET sortedResults == SortDesc(results)
             latest == sortedResults[1]
             previousResults == Tail(sortedResults)
         IN [latest |-> createLatestResultHTML(latest),
             previous |-> IF Len(previousResults) > 0
                          THEN GridHTML(previousResults)
                          ELSE NoPreviousHTML,
             results |-> results]

\* ------------------------------------------------------------ the sources
IsoChars == <<"2", "0", "2", "3", "-", "0", "2", "-", "0", "1">>

BrChars == <<"0", "1", "/", "0", "2", "/", "2", "0", "2", "3">>

\* A record of the local document data/results.json.
LocalRecord(n) == [drawNumber |-> n, date |-> IsoChars, numbers |-> <<1, 2, 3, 4, 5>>]

\* The sheet's row of draw n: "n,01/02/2023,10,20,30,40,50".
SheetLine(n) ==
    Join(<<ToChars(n), BrChars, <<"1", "0">>, <<"2", "0">>, <<"3", "0">>,
           <<"4", "0">>, <<"5", "0">>>>, ",")

\* The record parseCSV makes of SheetLine(n).
SheetRecord(n) ==
    [drawNumber |-> n, date |-> IsoChars, numbers |-> <<10, 20, 30, 40, 50>>]

\* A row with only 4 numeric fields: "9,01/02/2023,10,x,30,40,50".
BadSheetLine ==
    Join(<<<<"9">>, BrChars, <<"1", "0">>, <<"x">>, <<"3", "0">>,
           <<"4", "0">>, <<"5", "0">>>>, ",")

HeaderLine ==
    Join(<<<<"C", "o", "n", "c", "u", "r", "s", "o">>, <<"D", "a", "t", "a">>,
           <<"N", "1">>, <<"N", "2">>, <<"N", "3">>, <<"N", "4">>, <<"N", "5">>>>, ",")

SeqsUpTo(S, n) == UNION {[1..k -> S] : k \in 0..n}

NoResultsDoc == [hasResults |-> FALSE, results |-> <<>>]

\* The documents and texts of the page's specification: no results array,
\* an empty one, two records; the header alone, two rows (draw 2 is in both).
PageDocs ==
    {NoResultsDoc, [hasResults |-> TRUE, results |-> <<>>],
     [hasResults |-> TRUE, results |-> <<LocalRecord(1), LocalRecord(2)>>]}

PageTexts ==
    {HeaderLine, Join(<<HeaderLine, SheetLine(2), SheetLine(3)>>, "\n")}

\* The documents response.json() may resolve with: one without a results
\* array, or one with an array of records (repeated draw numbers included).
LocalDocs ==
    {NoResultsDoc} \cup
    {[hasResults |-> TRUE, results |-> s] :
        s \in SeqsUpTo({LocalRecord(n) : n \in 1..MaxDraw}, MaxLocalLen)}

\* Line 20 with {} for { results: [] }.
EmptyObjectLocalData == [hasResults |-> FALSE, results |-> <<>>]

\* Line 20: let localData = { results: [] }
EmptyLocalData == [hasResults |-> TRUE, results |-> <<>>]

\* The texts response.text() may resolve with: the header and data rows.
SheetTexts ==
    {Join(<<HeaderLine>> \o rows, "\n") :
        rows \in SeqsUpTo({SheetLine(n) : n \in 1..MaxDraw} \cup {BadSheetLine},
                          MaxSheetLines)}

\* -------------------------------------------------------------- the page
Cycles == 1..MaxCycles

Fetching == {"awaitLocal", "awaitJson", "awaitSheet", "awaitText"}

InFlight == {c \in Cycles : pc[c] \in Fetching}

\* Lines 15-16.
LoadingBtn == [disabled |-> TRUE, textContent |-> "Carregando..."]

\* A finally block that leaves the button as lines 15-16 set it.
FinallyLeavesLoading == LoadingBtn

\* Lines 57-58, the finally block.
Finally == [disabled |-> FALSE, textContent |-> "Atualizar"]

\* The start of the script: lines 7-10 and 200-206.  The initial load
\* (line 203) has run fetchResults up to its first await.
PageInit ==
    /\ pc = [c \in Cycles |-> IF c = 1 THEN "awaitLocal" ELSE "idle"]
    /\ localStep = [c \in Cycles |-> "pending"]
    /\ localData = [c \in Cycles |-> EmptyLocalData]
    /\ sheetResponse = [c \in Cycles |-> "pending"]
    /\ warned = [c \in Cycles |-> FALSE]
    /\ started = 1
    /\ refreshBtn = LoadingBtn
    /\ latestResultEl = InitialHTML
    /\ previousResultsEl = InitialHTML
    /\ updateTimeEl = 0
    /\ writer = [latest |-> 0, previous |-> 0]
    /\ lastCompleted = 0
    /\ overlapped = {}
    /\ lastMerge = [by |-> 0, local |-> <<>>, sheet |-> <<>>, all |-> <<>>]

Init ==
    /\ PageInit
    /\ phase = "page"
    /\ arg = <<>>
    /\ ret = <<>>

\* fetchResults is called: lines 13-19, up to the await of the local fetch.
StartCycle(c) ==
    /\ c = started + 1
    /\ started < MaxCycles
    /\ started' = c
    /\ refreshBtn' = LoadingBtn
    /\ pc' = [pc EXCEPT ![c] = "awaitLocal"]
    /\ overlapped' = IF InFlight = {} THEN overlapped
                     ELSE overlapped \cup InFlight \cup {c}
    /\ UNCHANGED <<localStep, localData, sheetResponse, warned,
                   latestResultEl, previousResultsEl, updateTimeEl, writer,
                   lastCompleted, lastMerge, phase, arg, ret>>

\* Line 200: a click on the button; a disabled button dispatches no click.
Click ==
    /\ ~refreshBtn.disabled
    /\ StartCycle(started + 1)

\* Line 206: the interval timer fires, whatever is in flight.
TimerTick == StartCycle(started + 1)

\* Lines 48-59: the outer catch, then finally; the activation's localData
\* is gone with it.
Fail(c) ==
    /\ latestResultEl' = ErrorHTML
    /\ writer' = [writer EXCEPT !.latest = c]
    /\ refreshBtn' = Finally
    /\ pc' = [pc EXCEPT ![c] = "failure"]
    /\ localData' = [localData EXCEPT ![c] = EmptyLocalData]
    /\ lastCompleted' = c
    /\ UNCHANGED <<previousResultsEl, updateTimeEl, lastMerge>>

\* Lines 37-46 and 56-59 with the sheet's records at hand: the merge, the
\* render, the refreshed time, then finally.  Spreading a document's missing
\* results array (line 38) throws, which the outer catch takes.
Complete(c, sheetResults) ==
    IF ~localData[c].hasResults THEN Fail(c)
    ELSE LET allResults == Merge(localData[c].results, sheetResults)
             shown == displayResults(allResults)
         IN /\ latestResultEl' = shown.latest
            /\ previousResultsEl' = shown.previous
            /\ updateTimeEl' = c
            /\ writer' = [latest |-> c, previous |-> c]
            /\ lastMerge' = [by |-> c, local |-> localData[c].results,
                             sheet |-> sheetResults, all |-> shown.results]
            /\ refreshBtn' = Finally
            /\ pc' = [pc EXCEPT ![c] = "success"]
            /\ localData' = [localData EXCEPT ![c] = EmptyLocalData]
            /\ lastCompleted' = c

\* The sheet step without its own try/catch: the outer catch takes it.
SheetRejectionEscapes(c) ==
    /\ Fail(c)
    /\ UNCHANGED warned

\* Lines 33-35: the inner catch takes what the sheet step threw; it warns,
\* sheetResults is still [], and the cycle goes on to the merge.
SheetRejected(c) ==
    /\ warned' = [warned EXCEPT ![c] = TRUE]
    /\ Complete(c, <<>>)

\* Line 19: the local fetch settles.  Rejected: the outer catch.  A
\* non-success status: localData stays { results: [] } and the sheet is
\* fetched (line 28).  Success: the body is read (line 22).
LocalFetchSettles(c) ==
    /\ pc[c] = "awaitLocal"
    /\ \/ /\ localStep' = [localStep EXCEPT ![c] = "rejected"]
          /\ Fail(c)
       \/ /\ localStep' = [localStep EXCEPT ![c] = "notOk"]
          /\ localData' = [localData EXCEPT ![c] = EmptyLocalData]
          /\ pc' = [pc EXCEPT ![c] = "awaitSheet"]
          /\ UNCHANGED <<refreshBtn, latestResultEl, previousResultsEl,
                         updateTimeEl, writer, lastCompleted, lastMerge>>
       \/ /\ localStep' = [localStep EXCEPT ![c] = "ok"]
          /\ pc' = [pc EXCEPT ![c] = "awaitJson"]
          /\ UNCHANGED <<localData, refreshBtn, latestResultEl,
                         previousResultsEl, updateTimeEl, writer,
                         lastCompleted, lastMerge>>
    /\ UNCHANGED <<sheetResponse, warned, started, overlapped, phase, arg, ret>>

\* Line 22: localStep.json() settles.  Rejected (the body is no JSON):
\* the outer catch.  Resolved: localData is the document, and the sheet is
\* fetched (line 28).
LocalJsonSettles(c, Docs) ==
    /\ pc[c] = "awaitJson"
    /\ \/ /\ localStep' = [localStep EXCEPT ![c] = "unparseable"]
          /\ Fail(c)
       \/ \E doc \in Docs :
          /\ localStep' = [localStep EXCEPT ![c] =
                              IF doc.hasResults THEN "results" ELSE "noResults"]
          /\ localData' = [localData EXCEPT ![c] = doc]
          /\ pc' = [pc EXCEPT ![c] = "awaitSheet"]
          /\ UNCHANGED <<refreshBtn, latestResultEl, previousResultsEl,
                         updateTimeEl, writer, lastCompleted, lastMerge>>
    /\ UNCHANGED <<sheetResponse, warned, started, overlapped, phase, arg, ret>>

\* Line 28: the sheet fetch settles.  Rejected: the inner catch warns and
\* sheetResults stays [].  A non-success status: sheetResults stays [].
\* Success: the body is read (line 30).
SheetFetchSettles(c) ==
    /\ pc[c] = "awaitSheet"
    /\ \/ /\ sheetResponse' = [sheetResponse EXCEPT ![c] = "rejected"]
          /\ SheetRejected(c)
       \/ /\ sheetResponse' = [sheetResponse EXCEPT ![c] = "notOk"]
          /\ Complete(c, <<>>)
          /\ UNCHANGED warned
       \/ /\ sheetResponse' = [sheetResponse EXCEPT ![c] = "ok"]
          /\ pc' = [pc EXCEPT ![c] = "awaitText"]
          /\ UNCHANGED <<warned, localData, refreshBtn, latestResultEl,
                         previousResultsEl, updateTimeEl, writer,
                         lastCompleted, lastMerge>>
    /\ UNCHANGED <<localStep, started, overlapped, phase, arg, ret>>

\* Line 30: sheetResponse.text() settles.  Rejected: the inner catch warns.
\* Resolved: parseCSV (line 31), then the rest of the cycle.
SheetTextSettles(c, Texts) ==
    /\ pc[c] = "awaitText"
    /\ \/ SheetRejected(c)
       \/ \E csvText \in Texts :
          /\ Complete(c, parseCSV(csvText))
          /\ UNCHANGED warned
    /\ UNCHANGED <<localStep, sheetResponse, started, overlapped,
                   phase, arg, ret>>

\* A request of cycle c settles.
Settle(c) ==
    \/ LocalFetchSettles(c)
    \/ LocalJsonSettles(c, PageDocs)
    \/ SheetFetchSettles(c)
    \/ SheetTextSettles(c, PageTexts)

Next ==
    \/ Click
    \/ TimerTick
    \/ \E c \in Cycles : LocalFetchSettles(c)
    \/ \E c \in Cycles : LocalJsonSettles(c, PageDocs)
    \/ \E c \in Cycles : SheetFetchSettles(c)
    \/ \E c \in Cycles : SheetTextSettles(c, PageTexts)

Spec == Init /\ [][Next]_vars

\* No request is left pending for ever: every fetch settles in the end.
FairSpec == Spec /\ \A c \in Cycles : WF_vars(Settle(c))

\* The initial load's cycle alone, over all documents and texts.
CycleNext ==
    \/ LocalFetchSettles(1)
    \/ LocalJsonSettles(1, LocalDocs)
    \/ SheetFetchSettles(1)
    \/ SheetTextSettles(1, SheetTexts)

CycleSpec == Init /\ [][CycleNext]_vars

\* ------------------------------------------------------- parseCSV, applied
\* 1234,01/02/2023,10,20,30,40,50   (the documented example row)
GoodLine ==
    <<"1", "2", "3", "4", ",", "0", "1", "/", "0", "2", "/", "2", "0", "2",
    "3", ",", "1", "0", ",", "2", "0", ",", "3", "0", ",", "4", "0", ",",
    "5", "0">>

\* "7",2023-02-01,1,2,3,4,5,x   (quoted first field, an eighth field)
QuotedLine ==
    <<"\"", "7", "\"", ",", "2", "0", "2", "3", "-", "0", "2", "-", "0",
    "1", ",", "1", ",", "2", ",", "3", ",", "4", ",", "5", ",", "x">>

\* 8,01/02/2023,1,2,x,4,5   (only 4 of the 5 values are numbers)
FourNumbersLine ==
    <<"8", ",", "0", "1", "/", "0", "2", "/", "2", "0", "2", "3", ",", "1",
    ",", "2", ",", "x", ",", "4", ",", "5">>

\* 9,2023-02-01,1,2,3,4   (6 fields)
SixFieldsLine ==
    <<"9", ",", "2", "0", "2", "3", "-", "0", "2", "-", "0", "1", ",", "1",
    ",", "2", ",", "3", ",", "4">>

\* x,2023-02-01,1,2,3,4,5   (no digit in the first field)
NoDigitLine ==
    <<"x", ",", "2", "0", "2", "3", "-", "0", "2", "-", "0", "1", ",", "1",
    ",", "2", ",", "3", ",", "4", ",", "5">>

\* 5,x,"1,2",3,4,5   (6 commas, one of them quoted: 6 fields)
QuotedCommaLine ==
    <<"5", ",", "x", ",", "\"", "1", ",", "2", "\"", ",", "3", ",", "4",
    ",", "5">>

\* No 6,1/2/2023, 7,3x,-4,+5,6   (white space, trailing letters, signs)
LooseLine ==
    <<"N", "o", " ", "6", ",", "1", "/", "2", "/", "2", "0", "2", "3", ",",
    " ", "7", ",", "3", "x", ",", "-", "4", ",", "+", "5", ",", "6">>

\* a single blank   (white space only: not empty)
BlankLine ==
    <<" ">>

\* The lines a text is built of; the empty one among them.
CsvLines ==
    {<<>>, HeaderLine, GoodLine, QuotedLine, FourNumbersLine, SixFieldsLine,
     NoDigitLine, QuotedCommaLine, LooseLine, BlankLine}

\* In CsvSpec arg is the sequence of the text's lines; the text is their
\* join with line feeds.
CsvInit ==
    /\ PageInit
    /\ phase = "build"
    /\ arg = <<>>
    /\ ret = <<>>

CsvAppendLine ==
    /\ phase = "build"
    /\ Len(arg) < MaxLines
    /\ \E line \in CsvLines : arg' = Append(arg, line)
    /\ UNCHANGED <<pageVars, latestResultEl, previousResultsEl, phase, ret>>

CsvCall ==
    /\ phase = "build"
    /\ phase' = "called"
    /\ ret' = parseCSV(Join(arg, "\n"))
    /\ UNCHANGED <<pageVars, latestResultEl, previousResultsEl, arg>>

CsvNext == CsvAppendLine \/ CsvCall

CsvSpec == CsvInit /\ [][CsvNext]_vars

\* -------------------------------------------------- displayResults, applied
RenderRecords ==
    {LocalRecord(n) : n \in 1..MaxRenderDraw} \cup
    {SheetRecord(n) : n \in 1..MaxRenderDraw}

\* In RenderSpec arg is the caller's data.results; after the call ret is the
\* collection as it was handed over and arg the caller's collection as the
\* call left it.
RenderInit ==
    /\ PageInit
    /\ phase = "build"
    /\ arg = <<>>
    /\ ret = <<>>

RenderAppend ==
    /\ phase = "build"
    /\ Len(arg) < MaxResults
    /\ \E r \in RenderRecords : arg' = Append(arg, r)
    /\ UNCHANGED <<pageVars, latestResultEl, previousResultsEl, phase, ret>>

RenderCall ==
    /\ phase = "build"
    /\ phase' = "called"
    /\ LET shown == displayResults(arg)
       IN /\ latestResultEl' = shown.latest
          /\ previousResultsEl' = shown.previous
          /\ arg' = shown.results
    /\ ret' = arg
    /\ UNCHANGED pageVars

RenderNext == RenderAppend \/ RenderCall

RenderSpec == RenderInit /\ [][RenderNext]_vars

\* ================================================================ claims
Range(s) == {s[i] : i \in 1..Len(s)}

DrawNumbers(s) == {s[i].drawNumber : i \in 1..Len(s)}

\* The elements of s at the indices in K, in the order of s.
Pick(s, K) ==
    [k \in 1..Cardinality(K) |->
        s[CHOOSE i \in K : Cardinality({j \in K : j < i}) = k - 1]]

EnabledBtn == [disabled |-> FALSE, textContent |-> "Atualizar"]

DisabledBtn == [disabled |-> TRUE, textContent |-> "Carregando..."]

Ended == {"success", "failure"}

\* ---------------------------------------------------------------- C1
\* The remote records the merge appends: those whose draw number no local
\* record has, every one of them / only the first of each draw number.
RemoteNotLocal(local, sheet) ==
    {i \in 1..Len(sheet) : sheet[i].drawNumber \notin DrawNumbers(local)}

RemoteFirstNotLocal(local, sheet) ==
    {i \in RemoteNotLocal(local, sheet) :
        \A j \in 1..(i - 1) : sheet[j].drawNumber # sheet[i].drawNumber}

\* C1, as stated: the sequence handed to displayResults is the local records
\* in their order, followed by exactly the remote records whose drawNumber
\* no local record has, in parse order.
C1_AllRemoteNotLocalAppended ==
    lastMerge.by # 0 =>
        lastMerge.all = lastMerge.local \o
            Pick(lastMerge.sheet, RemoteNotLocal(lastMerge.local, lastMerge.sheet))

\* C1, amended: the sequence handed to displayResults is the local records in
\* their order, followed, in parse order, by the first remote record of each
\* drawNumber that no local record has; so a record shown for a drawNumber
\* that both sources hold is a local one.
C1_LocalThenFirstRemote ==
    lastMerge.by # 0 =>
        /\ lastMerge.all = lastMerge.local \o
               Pick(lastMerge.sheet,
                    RemoteFirstNotLocal(lastMerge.local, lastMerge.sheet))
        /\ \A i \in 1..Len(lastMerge.all) :
              lastMerge.all[i].drawNumber \in
                  DrawNumbers(lastMerge.local) \cap DrawNumbers(lastMerge.sheet)
              => /\ i <= Len(lastMerge.local)
                 /\ lastMerge.all[i] = lastMerge.local[i]

\* Local [1] merged with remote [1', 2] gave the 2 records local-1, remote-2.
C1_Witness ==
    /\ lastMerge.by # 0
    /\ lastMerge.local = <<LocalRecord(1)>>
    /\ lastMerge.sheet = <<SheetRecord(1), SheetRecord(2)>>
    /\ lastMerge.all = <<LocalRecord(1), SheetRecord(2)>>

\* ---------------------------------------------------------------- C2
\* C2: the collection handed to displayResults holds no two records with the
\* same drawNumber, whatever the two sources hold.
C2_UniqueDrawNumbers ==
    lastMerge.by # 0 =>
        \A i, j \in 1..Len(lastMerge.all) :
            i # j => lastMerge.all[i].drawNumber # lastMerge.all[j].drawNumber

\* ---------------------------------------------------------------- C3
LocalStepFailed(c) ==
    localStep[c] \in {"rejected", "notOk", "unparseable", "noResults"}

RemoteFailed(c) == sheetResponse[c] \in {"rejected", "notOk"} \/ warned[c]

C5_LeavesFetchingEnabled ==
    /\ \A c \in Cycles : (pc[c] \in Fetching) ~> (pc[c] \in Ended)
    /\ [][\A c \in Cycles :
            pc[c] \in Fetching /\ pc'[c] \notin Fetching =>
                /\ pc'[c] \in Ended
                /\ refreshBtn' = EnabledBtn]_vars

\* One cycle has left Fetching by success and one by failure, and the
\* button is enabled.
C5_Witness ==
    /\ \E c \in Cycles : pc[c] = "success"
    /\ \E c \in Cycles : pc[c] = "failure"
    /\ InFlight = {}
    /\ refreshBtn = EnabledBtn

\* ---------------------------------------------------------------- C6
\* C6: at the step where a cycle enters Failure, neither the latest-result
\* area nor the previous-results area still shows records an earlier cycle
\* rendered.
C6_ErrorReplacesResults ==
    [][\A c \in Cycles :
          pc[c] \in Fetching /\ pc'[c] = "failure" =>
              /\ latestResultEl'.kind # "latestCard"
              /\ previousResultsEl'.kind # "grid"]_vars

\* ---------------------------------------------------------------- C9
\* C9: once every cycle of an overlap has completed, both areas show what
\* the last-completing cycle wrote: the latest-result area is its own, and
\* the previous-results area holds no records that an earlier cycle rendered.
C9_LastCompletingCycleWins ==
    (InFlight = {} /\ lastCompleted # 0 /\ lastCompleted \in overlapped) =>
        /\ writer.latest = lastCompleted
        /\ writer.previous \notin {0, lastCompleted} =>
              previousResultsEl.kind # "grid"

\* --------------------------------------------------------------- C10
\* C10: whenever a cycle is in flight the button is disabled and shows the
\* loading label; it is enabled, with the default label, only when none is.
C10_ButtonTracksFetching ==
    /\ InFlight # {} => refreshBtn = DisabledBtn
    /\ refreshBtn = EnabledBtn => InFlight = {}

\* ---------------------------------------------------------------- C7
\* The field reads as an integer: after leading white space and an
\* optional sign comes a digit.
IntegerParsable(f) ==
    LET lead == Cardinality({n \in 1..Len(f) : \A j \in 1..n : IsSpace(f[j])})
    IN \/ lead + 1 <= Len(f) /\ IsDigit(f[lead + 1])
       \/ /\ lead + 2 <= Len(f)
          /\ f[lead + 1] \in {"+", "-"}
          /\ IsDigit(f[lead + 2])

\* The line has at least 7 fields, a first field with a digit in it, and
\* exactly 5 integer-parsable values among fields 2..6 (counted from 0).
WellFormed(line) ==
    LET row == parseCSVLine(line) IN
    /\ Len(row) >= 7
    /\ \E i \in 1..Len(row[1]) : IsDigit(row[1][i])
    /\ Cardinality({k \in 3..7 : IntegerParsable(row[k])}) = 5

\* The lines of the text of CsvSpec (the empty text is one empty line).
TextLines == IF arg = <<>> THEN <<<<>>>> ELSE arg

\* ret holds one record for each of the lines at the indices in K, in order.
OneRecordPerLine(K) ==
    /\ Len(ret) = Cardinality(K)
    /\ \A m \in 1..Len(ret) :
          /\ Len(ret[m].numbers) = 5
          /\ ret[m].drawNumber =
                DigitsValue(SelectSeq(parseCSVLine(Pick(TextLines, K)[m])[1],
                                      LAMBDA ch : IsDigit(ch)), 0)

\* C7, as stated: parseCSV skips the first line and returns, in line order,
\* one record for each later non-empty well-formed line and none for any
\* other line.
C7_SkipsFirstLine ==
    phase = "called" =>
        OneRecordPerLine({k \in 2..Len(TextLines) :
                             TextLines[k] # <<>> /\ WellFormed(TextLines[k])})

\* C7, amended: parseCSV skips the first non-empty line as header (empty
\* lines are dropped before the header is skipped) and returns, in line
\* order, one record for each later non-empty well-formed line and none for
\* any other line; each record has exactly 5 numbers.
C7_SkipsFirstNonEmptyLine ==
    phase = "called" =>
        LET nonEmpty == {k \in 1..Len(TextLines) : TextLines[k] # <<>>}
        IN OneRecordPerLine({k \in nonEmpty :
                                /\ \E h \in nonEmpty : h < k
                                /\ WellFormed(TextLines[k])})

\* A header and two well-formed lines gave two records, the first the
\* documented one.
C7_Witness ==
    /\ phase = "called"
    /\ arg = <<HeaderLine, GoodLine, QuotedLine>>
    /\ Len(ret) = 2
    /\ ret[1] = [drawNumber |-> 1234, date |-> IsoChars,
                 numbers |-> <<10, 20, 30, 40, 50>>]
    /\ ret[2].drawNumber = 7

\* ---------------------------------------------------------------- C8
\* How often the card v is among the cards of the sequence.
Count(cards, v) == Cardinality({i \in 1..Len(cards) : cards[i] = v})

\* C8: for a non-empty collection displayResults shows as latest a record
\* of the greatest drawNumber and the other records as previous, in
\* descending drawNumber order, and leaves the caller's collection in its
\* order; for an empty one it shows the "no results yet" placeholder and
\* clears the previous-results area.
C8_LatestIsMaxRestDescending ==
    phase = "called" =>
        /\ arg = ret
        /\ ret = <<>> =>
              /\ latestResultEl = [kind |-> "noResults"]
              /\ previousResultsEl = [kind |-> "empty"]
        /\ ret # <<>> =>
              LET previous == IF previousResultsEl.kind = "grid"
                              THEN previousResultsEl.cards ELSE <<>>
                  shown == <<latestResultEl.card>> \o previous
                  given == [i \in 1..Len(ret) |-> CardOf(ret[i])]
              IN /\ latestResultEl.kind = "latestCard"
                 /\ previousResultsEl.kind =
                       IF Len(ret) > 1 THEN "grid" ELSE "noPrevious"
                 /\ \A n \in DrawNumbers(ret) : latestResultEl.card.drawNumber >= n
                 /\ \A i, j \in 1..Len(previous) :
                       i < j => previous[i].drawNumber >= previous[j].drawNumber
                 /\ Len(shown) = Len(given)
                 /\ \A v \in Range(given) : Count(shown, v) = Count(given, v)

\* The records 3, 1, 2 were shown as latest 3 and previous 2, 1.
C8_Witness ==
    /\ phase = "called"
    /\ ret = <<LocalRecord(3), LocalRecord(1), LocalRecord(2)>>
    /\ arg = ret
    /\ latestResultEl.card.drawNumber = 3
    /\ previousResultsEl.kind = "grid"
    /\ previousResultsEl.cards = <<CardOf(LocalRecord(2)), CardOf(LocalRecord(1))>>

====
